---- MODULE Spec2Model ----
\* Model of zino-core's storage accessor (src/zino-core/src/accessor/mod.rs):
\* the scheme dispatch of GlobalAccessor::try_new_operator, the layer stack,
\* the lazily built GLOBAL_ACCESSOR registry and GlobalAccessor::get.
EXTENDS Integers, Sequences, FiniteSets, TLC

VARIABLES
    features,         \* cargo features the crate was compiled with
    config,           \* State::shared().config().get_array("accessor")
    GLOBAL_ACCESSOR,  \* the LazyLock: its Once state and its value
    operators,        \* the initializer's local Vec<(&str, Operator)>
    idx,              \* position of the initializer's for loop in the array
    initRuns,         \* how many times the initializer closure was entered
    panicMsg,         \* payload of the initializer's panic, if any
    pc,               \* per thread: position inside GlobalAccessor::get
    arg,              \* per thread: the name passed to get
    result,           \* per thread: the Option<&Operator> get returned
    nextId,           \* allocation counter: identity of Operator instances
    built,            \* last direct try_new_operator call: inputs and Result
    op                \* one operation in flight through a decorated operator

vars == <<features, config, GLOBAL_ACCESSOR, operators, idx, initRuns, panicMsg,
          pc, arg, result, nextId, built, op>>

-----------------------------------------------------------------------------
\* Bounds of the model.

MaxAccessors == 2     \* longest `accessor` array explored
MaxBuilds == 1        \* direct try_new_operator calls per run
MaxFailures == 5      \* most failures the backend stub makes before succeeding

Threads == {"t1", "t2"}   \* threads calling GlobalAccessor::get

-----------------------------------------------------------------------------
\* Configuration values.

Absent == "<absent>"  \* Option::None of a get_str lookup

\* A value of the `accessor` array. `table` is Value::as_table().is_some();
\* `valid` abstracts the backend-specific fields: whether the backend builder
\* accepts them (Operator::new(builder) returns Ok).
Element(table, scheme, name, valid) ==
    [table |-> table, scheme |-> scheme, name |-> name, valid |-> valid]

NonTable == Element(FALSE, Absent, Absent, TRUE)
EmptyTable == Element(TRUE, Absent, Absent, TRUE)

ConfigSchemes == {Absent, "memory", "fs", "bogus"}
ConfigNames == {Absent, "memory", "local"}

TableValues ==
    {Element(TRUE, s, n, TRUE) : s \in ConfigSchemes, n \in ConfigNames}
        \cup {Element(TRUE, "fs", Absent, FALSE)}

ElementValues == {NonTable} \cup TableValues

RECURSIVE SeqsUpTo(_, _)
SeqsUpTo(S, n) ==
    IF n = 0 THEN {<<>>}
    ELSE LET shorter == SeqsUpTo(S, n - 1)
         IN shorter \cup {Append(s, e) : s \in {x \in shorter : Len(x) = n - 1}, e \in S}

\* get_array("accessor"): None, or the array.
NoArray == [array |-> FALSE, items |-> <<>>]
ConfigValues ==
    {NoArray} \cup {[array |-> TRUE, items |-> s] : s \in SeqsUpTo(ElementValues, MaxAccessors)}

-----------------------------------------------------------------------------
\* Scheme dispatch: the match of try_new_operator.

OptionalFeatures ==
    {"accessor-dashmap", "accessor-ftp", "accessor-ipfs", "accessor-memcached",
     "accessor-moka", "accessor-redis", "accessor-sled"}

DocumentedSchemes ==
    {"azblob", "azdfs", "dashmap", "fs", "ftp", "gcs", "ghac", "ipfs", "ipmfs",
     "memcached", "memory", "minio", "moka", "obs", "oss", "redis", "s3", "sled",
     "webdav", "webhdfs"}

\* The opendal service each match arm constructs.
Builder(scheme) ==
    CASE scheme = "azblob" -> "Azblob"
      [] scheme = "azdfs" -> "Azdfs"
      [] scheme = "dashmap" -> "Dashmap"
      [] scheme = "fs" -> "Fs"
      [] scheme = "ftp" -> "Ftp"
      [] scheme = "gcs" -> "Gcs"
      [] scheme = "ghac" -> "Ghac"
      [] scheme = "ipfs" -> "Ipfs"
      [] scheme = "ipmfs" -> "Ipmfs"
      [] scheme = "memcached" -> "Memcached"
      [] scheme = "memory" -> "Memory"
      [] scheme = "moka" -> "Moka"
      [] scheme = "obs" -> "Obs"
      [] scheme = "oss" -> "Oss"
      [] scheme = "redis" -> "Redis"
      [] scheme \in {"s3", "minio"} -> "S3"
      [] scheme = "sled" -> "Sled"
      [] scheme = "webdav" -> "Webdav"
      [] scheme = "webhdfs" -> "Webhdfs"
      [] OTHER -> "none"

\* The #[cfg(feature = ...)] attribute on a match arm ("accessor": none).
ArmFeature(scheme) ==
    CASE scheme = "dashmap" -> "accessor-dashmap"
      [] scheme = "ftp" -> "accessor-ftp"
      [] scheme = "ipfs" -> "accessor-ipfs"
      [] scheme = "memcached" -> "accessor-memcached"
      [] scheme = "moka" -> "accessor-moka"
      [] scheme = "redis" -> "accessor-redis"
      [] scheme = "sled" -> "accessor-sled"
      [] OTHER -> "accessor"

\* The mutant: the cfg attributes are ignored, every documented arm is tried.
ArmCompiledNoCfg(scheme) == Builder(scheme) # "none"

\* An arm for the scheme exists in the compiled match.
ArmCompiled(scheme) ==
    /\ Builder(scheme) # "none"
    /\ ArmFeature(scheme) = "accessor" \/ ArmFeature(scheme) \in features

\* Arms that call State::decrypt_password(config).
UsesSecret(scheme) == scheme \in {"ftp", "redis", "webdav"}

\* Arms whose builder takes nothing from the configuration table.
TakesNoConfig(scheme) == scheme \in {"memory", "dashmap"}

\* Operator::new(builder)? : Ok unless the builder rejects its fields.
BuildOk(scheme, table) == TakesNoConfig(scheme) \/ table.valid

-----------------------------------------------------------------------------
\* Operators and the layer stack.

TracingLayer == "TracingLayer"
MetricsLayer == "MetricsLayer"
RetryLayer == "RetryLayer"

\* An Operator instance: identity, the service behind it, the configuration
\* table it was built from, and its layers, innermost (first applied) first.
Operator(id, scheme, table) ==
    [id |-> id, scheme |-> scheme, builder |-> Builder(scheme), table |-> table,
     layers |-> <<>>]

NoOperator == [id |-> -1, scheme |-> Absent, builder |-> "none", table |-> EmptyTable,
               layers |-> <<>>]

\* Operator::layer / OperatorBuilder::layer: wraps the operator once more.
layer(operator, l) == [operator EXCEPT !.layers = Append(@, l)]

\* The mutant: retry applied first, so it ends up innermost.
DecorateRetryInnermost(operator) ==
    layer(layer(layer(operator, RetryLayer), TracingLayer), MetricsLayer)

\* The mutant: the retry layer is left out.
DecorateNoRetry(operator) == layer(layer(operator, TracingLayer), MetricsLayer)

\* op.layer(TracingLayer).layer(MetricsLayer).layer(RetryLayer::new())
Decorate(operator) ==
    layer(layer(layer(operator, TracingLayer), MetricsLayer), RetryLayer)

\* The initializer's memory operator.
memory_operator(id) ==
    layer(layer(layer(Operator(id, "memory", EmptyTable), TracingLayer), MetricsLayer),
          RetryLayer)

NoError == [kind |-> "none", message |-> ""]
Unsupported == "Unsupported"
ConfigInvalid == "ConfigInvalid"

\* The match: Result<Operator, Error> before the layers, with what the arm did.
MatchScheme(scheme, table, id) ==
    IF ArmCompiled(scheme)
    THEN [ok |-> BuildOk(scheme, table),
          operator |-> IF BuildOk(scheme, table) THEN Operator(id, scheme, table)
                       ELSE NoOperator,
          error |-> IF BuildOk(scheme, table) THEN NoError
                    ELSE [kind |-> ConfigInvalid, message |-> "builder rejected the fields"],
          constructed |-> Builder(scheme),
          secret |-> UsesSecret(scheme)]
    ELSE [ok |-> FALSE, operator |-> NoOperator,
          error |-> [kind |-> Unsupported, message |-> "scheme is unsupported"],
          constructed |-> "none", secret |-> FALSE]

\* GlobalAccessor::try_new_operator(scheme, config)
try_new_operator(scheme, table, id) ==
    LET operator == MatchScheme(scheme, table, id)
    IN IF operator.ok
       THEN [operator EXCEPT !.operator = Decorate(@)]
       ELSE operator

NoResult == [ok |-> FALSE, operator |-> NoOperator, error |-> NoError,
             constructed |-> "none", secret |-> FALSE]

-----------------------------------------------------------------------------
\* The registry: the LazyLock and its initializer.

Incomplete == "Incomplete"
Running == "Running"
Complete == "Complete"
Poisoned == "Poisoned"

Entry(name, operator) == [name |-> name, operator |-> operator]

\* The mutant: the new entry goes to the front of the vector.
PushFront(vec, entry) == <<entry>> \o vec

\* Vec::push
push(vec, entry) == Append(vec, entry)

\* accessor.get_str("scheme").unwrap_or("unkown")
\* The mutant: a record without a scheme falls back to the memory backend.
SchemeOfDefaultsToMemory(accessor) ==
    IF accessor.scheme # Absent THEN accessor.scheme ELSE "memory"

SchemeOf(accessor) == IF accessor.scheme # Absent THEN accessor.scheme ELSE "unkown"

\* The mutant: the name is ignored, the entry is always stored under the scheme.
NameOfSchemeOnly(accessor) == SchemeOf(accessor)

\* accessor.get_str("name").unwrap_or(scheme)
NameOf(accessor) == IF accessor.name # Absent THEN accessor.name ELSE SchemeOf(accessor)

\* The mutant: the panic message leaves the scheme out.
PanicMessageNoScheme(scheme, err) ==
    <<"fail to build ", " operator: ", err.kind, err.message>>

\* panic!("fail to build `{scheme}` operator: {err}"), as the sequence of its
\* literal pieces and interpolated values (the quoting marks left out).
PanicMessage(scheme, err) ==
    <<"fail to build ", scheme, " operator: ", err.kind, err.message>>

NoPanic == <<>>

Option(some, operator) == [some |-> some, operator |-> operator]
None == Option(FALSE, NoOperator)

\* The mutant: the scan keeps going and returns the last match.
RECURSIVE FindLast(_, _)
FindLast(entries, name) ==
    IF entries = <<>> THEN None
    ELSE LET rest == FindLast(Tail(entries), name)
         IN IF rest.some THEN rest
            ELSE IF Head(entries).name = name THEN Option(TRUE, Head(entries).operator)
            ELSE None

\* .iter().find_map(|(key, operator)| (key == &name).then_some(operator))
RECURSIVE find_map(_, _)
find_map(entries, name) ==
    IF entries = <<>> THEN None
    ELSE IF Head(entries).name = name THEN Option(TRUE, Head(entries).operator)
    ELSE find_map(Tail(entries), name)

LookupNames == {"memory", "local"}

\* GlobalAccessor::get(name) is entered: the thread dereferences the LazyLock.
Get(t, name) ==
    /\ pc[t] \in {"idle", "returned"}
    /\ pc' = [pc EXCEPT ![t] = "forcing"]
    /\ arg' = [arg EXCEPT ![t] = name]
    /\ result' = [result EXCEPT ![t] = None]
    /\ UNCHANGED <<features, config, GLOBAL_ACCESSOR, operators, idx, initRuns,
                   panicMsg, nextId, built, op>>

\* The first thread to find the LazyLock Incomplete enters the initializer,
\* which creates the memory operator and pushes ("memory", memory_operator).
InitializerEnter(t) ==
    /\ pc[t] = "forcing"
    /\ GLOBAL_ACCESSOR.state = Incomplete
    /\ GLOBAL_ACCESSOR' = [GLOBAL_ACCESSOR EXCEPT !.state = Running]
    /\ pc' = [pc EXCEPT ![t] = "initializing"]
    /\ operators' = push(<<>>, Entry("memory", memory_operator(nextId)))
    /\ nextId' = nextId + 1
    /\ idx' = 1
    /\ initRuns' = initRuns + 1
    /\ UNCHANGED <<features, config, panicMsg, arg, result, built, op>>

\* The mutant: a record that fails to build is skipped instead of panicking.
InitializerLoopSkipsFailed(t) ==
    /\ pc[t] = "initializing"
    /\ config.array
    /\ idx <= Len(config.items)
    /\ LET accessor == config.items[idx]
           operator == try_new_operator(SchemeOf(accessor), accessor, nextId)
       IN IF accessor.table /\ operator.ok
          THEN /\ operators' = push(operators, Entry(NameOf(accessor), operator.operator))
               /\ nextId' = nextId + 1
          ELSE UNCHANGED <<operators, nextId>>
    /\ idx' = idx + 1
    /\ UNCHANGED <<features, config, GLOBAL_ACCESSOR, initRuns, panicMsg, pc, arg, result,
                   built, op>>

\* One iteration of `for accessor in accessors.iter().filter_map(|v| v.as_table())`.
InitializerLoop(t) ==
    /\ pc[t] = "initializing"
    /\ config.array
    /\ idx <= Len(config.items)
    /\ LET accessor == config.items[idx]
           scheme == SchemeOf(accessor)
           name == NameOf(accessor)
           operator == try_new_operator(scheme, accessor, nextId)
       IN IF ~accessor.table
          THEN /\ idx' = idx + 1
               /\ UNCHANGED <<GLOBAL_ACCESSOR, operators, panicMsg, pc, nextId>>
          ELSE IF operator.ok
          THEN /\ operators' = push(operators, Entry(name, operator.operator))
               /\ nextId' = nextId + 1
               /\ idx' = idx + 1
               /\ UNCHANGED <<GLOBAL_ACCESSOR, panicMsg, pc>>
          ELSE /\ panicMsg' = PanicMessage(scheme, operator.error)
               /\ GLOBAL_ACCESSOR' = [GLOBAL_ACCESSOR EXCEPT !.state = Poisoned]
               /\ pc' = [pc EXCEPT ![t] = "panicked"]
               /\ UNCHANGED <<operators, idx, nextId>>
    /\ UNCHANGED <<features, config, initRuns, arg, result, built, op>>

\* The initializer returns `operators`; the LazyLock stores it and completes.
InitializerReturn(t) ==
    /\ pc[t] = "initializing"
    /\ ~config.array \/ idx > Len(config.items)
    /\ GLOBAL_ACCESSOR' = [state |-> Complete, value |-> operators]
    /\ pc' = [pc EXCEPT ![t] = "forcing"]
    /\ UNCHANGED <<features, config, operators, idx, initRuns, panicMsg, arg, result,
                   nextId, built, op>>

\* The mutant: the lookup does not wait for the initializer and scans the
\* vector as far as it has been built.
GetReturnUnsynchronized(t) ==
    /\ pc[t] = "forcing"
    /\ GLOBAL_ACCESSOR.state \in {Running, Complete}
    /\ result' = [result EXCEPT ![t] = find_map(operators, arg[t])]
    /\ pc' = [pc EXCEPT ![t] = "returned"]
    /\ UNCHANGED <<features, config, GLOBAL_ACCESSOR, operators, idx, initRuns,
                   panicMsg, arg, nextId, built, op>>

\* The LazyLock is Complete: get scans the vector and returns.
GetReturn(t) ==
    /\ pc[t] = "forcing"
    /\ GLOBAL_ACCESSOR.state = Complete
    /\ result' = [result EXCEPT ![t] = find_map(GLOBAL_ACCESSOR.value, arg[t])]
    /\ pc' = [pc EXCEPT ![t] = "returned"]
    /\ UNCHANGED <<features, config, GLOBAL_ACCESSOR, operators, idx, initRuns,
                   panicMsg, arg, nextId, built, op>>

\* The LazyLock is Poisoned: dereferencing it panics.
GetPoisoned(t) ==
    /\ pc[t] = "forcing"
    /\ GLOBAL_ACCESSOR.state = Poisoned
    /\ pc' = [pc EXCEPT ![t] = "panicked"]
    /\ UNCHANGED <<features, config, GLOBAL_ACCESSOR, operators, idx, initRuns,
                   panicMsg, arg, result, nextId, built, op>>

DirectSchemes == {"memory", "bogus"}

\* The last direct call: its arguments, its Result, and how many were made.
Call(scheme, table, res, calls) ==
    [scheme |-> scheme, table |-> table, result |-> res, calls |-> calls]
NoCall == Call(Absent, EmptyTable, NoResult, 0)

\* The mutant: a direct call also registers the operator it built.
TryNewOperatorRegisters(t, scheme, table) ==
    /\ pc[t] \in {"idle", "returned"}
    /\ built.calls < MaxBuilds
    /\ built' = Call(scheme, table, try_new_operator(scheme, table, nextId), built.calls + 1)
    /\ nextId' = IF built'.result.ok THEN nextId + 1 ELSE nextId
    /\ GLOBAL_ACCESSOR' =
          IF built'.result.ok
          THEN [GLOBAL_ACCESSOR EXCEPT !.value = <<Entry(scheme, built'.result.operator)>> \o @]
          ELSE GLOBAL_ACCESSOR
    /\ UNCHANGED <<features, config, operators, idx, initRuns, panicMsg, pc, arg, result, op>>

\* A direct call GlobalAccessor::try_new_operator(scheme, config) by a thread
\* that is not inside get.
TryNewOperator(t, scheme, table) ==
    /\ pc[t] \in {"idle", "returned"}
    /\ built.calls < MaxBuilds
    /\ built' = Call(scheme, table, try_new_operator(scheme, table, nextId), built.calls + 1)
    /\ nextId' = IF built'.result.ok THEN nextId + 1 ELSE nextId
    /\ UNCHANGED <<features, config, GLOBAL_ACCESSOR, operators, idx, initRuns,
                   panicMsg, pc, arg, result, op>>

IdleOperation ==
    [status |-> "idle", operator |-> NoOperator, failures |-> 0, transient |-> TRUE,
     tries |-> 0, traces |-> 0, metrics |-> 0]

\* The registry is explored for the default build: no optional feature.
DefaultFeatures == {}

Init ==
    /\ features = DefaultFeatures
    /\ config \in ConfigValues
    /\ GLOBAL_ACCESSOR = [state |-> Incomplete, value |-> <<>>]
    /\ operators = <<>>
    /\ idx = 0
    /\ initRuns = 0
    /\ panicMsg = NoPanic
    /\ pc = [t \in Threads |-> "idle"]
    /\ arg = [t \in Threads |-> Absent]
    /\ result = [t \in Threads |-> None]
    /\ nextId = 0
    /\ built = NoCall
    /\ op = IdleOperation

Next ==
    \/ \E t \in Threads, name \in LookupNames : Get(t, name)
    \/ \E t \in Threads : InitializerEnter(t)
    \/ \E t \in Threads : InitializerLoop(t)
    \/ \E t \in Threads : InitializerReturn(t)
    \/ \E t \in Threads : GetReturn(t)
    \/ \E t \in Threads : GetPoisoned(t)
    \/ \E t \in Threads, scheme \in DirectSchemes : TryNewOperator(t, scheme, EmptyTable)

Spec == Init /\ [][Next]_vars

-----------------------------------------------------------------------------
\* Direct dispatch under every feature selection.

DispatchSchemes == DocumentedSchemes \cup {"bogus", "unkown", "S3", ""}
DispatchTables == {EmptyTable, Element(TRUE, Absent, Absent, FALSE)}

InitDispatch ==
    /\ features \in SUBSET OptionalFeatures
    /\ config = NoArray
    /\ GLOBAL_ACCESSOR = [state |-> Incomplete, value |-> <<>>]
    /\ operators = <<>>
    /\ idx = 0
    /\ initRuns = 0
    /\ panicMsg = NoPanic
    /\ pc = [t \in Threads |-> "idle"]
    /\ arg = [t \in Threads |-> Absent]
    /\ result = [t \in Threads |-> None]
    /\ nextId = 0
    /\ built = NoCall
    /\ op = IdleOperation

NextDispatch ==
    \E t \in Threads, scheme \in DispatchSchemes, table \in DispatchTables :
        TryNewOperator(t, scheme, table)

SpecDispatch == InitDispatch /\ [][NextDispatch]_vars

-----------------------------------------------------------------------------
\* One operation through a decorated operator, against a backend stub that
\* fails `failures` times and then succeeds.

\* Most tries the retry layer makes of one operation (RetryLayer::new()'s
\* default policy: the first try and three retries).
MaxAttempts == 4

RECURSIVE IndexOf(_, _, _)
IndexOf(layers, l, i) ==
    IF i > Len(layers) THEN 0
    ELSE IF layers[i] = l THEN i
    ELSE IndexOf(layers, l, i + 1)

HasRetry(operator) == IndexOf(operator.layers, RetryLayer, 1) # 0

\* How many layers `l` lie among layers[from..to].
Passes(layers, l, from, to) == Cardinality({i \in from..to : layers[i] = l})

\* Layers wrapped by the retry layer are entered on every try; with no retry
\* layer every layer is entered on the single try.
PerTry(operator, l) ==
    LET r == IndexOf(operator.layers, RetryLayer, 1)
    IN IF r = 0 THEN Passes(operator.layers, l, 1, Len(operator.layers))
       ELSE Passes(operator.layers, l, 1, r - 1)

\* Layers wrapping the retry layer are entered once per operation.
PerOperation(operator, l) ==
    LET r == IndexOf(operator.layers, RetryLayer, 1)
    IN IF r = 0 THEN 0
       ELSE Passes(operator.layers, l, r + 1, Len(operator.layers))

\* The operators a caller holds: what get returned to it, and what its direct
\* try_new_operator call returned.
Held(t) ==
    (IF pc[t] = "returned" /\ result[t].some THEN {result[t].operator} ELSE {})
        \cup (IF built.result.ok THEN {built.result.operator} ELSE {})

StartOperation(t, operator, failures, transient) ==
    /\ pc[t] \in {"idle", "returned"}
    /\ op.status # "running"
    /\ operator \in Held(t)
    /\ op' = [status |-> "running", operator |-> operator, failures |-> failures,
              transient |-> transient, tries |-> 0,
              traces |-> PerOperation(operator, TracingLayer),
              metrics |-> PerOperation(operator, MetricsLayer)]
    /\ UNCHANGED <<features, config, GLOBAL_ACCESSOR, operators, idx, initRuns, panicMsg,
                   pc, arg, result, nextId, built>>

\* One try of the backend: it passes the layers under the retry layer, and the
\* retry layer tries again after a transient failure while tries remain.
Attempt ==
    /\ op.status = "running"
    /\ LET tries == op.tries + 1
           failed == tries <= op.failures
           again == failed /\ op.transient /\ HasRetry(op.operator) /\ tries < MaxAttempts
       IN op' = [op EXCEPT !.tries = tries,
                           !.traces = @ + PerTry(op.operator, TracingLayer),
                           !.metrics = @ + PerTry(op.operator, MetricsLayer),
                           !.status = IF ~failed THEN "ok"
                                      ELSE IF again THEN "running" ELSE "failed"]
    /\ UNCHANGED <<features, config, GLOBAL_ACCESSOR, operators, idx, initRuns, panicMsg,
                   pc, arg, result, nextId, built>>

OperationThreads == {"t1"}
OperationConfigs ==
    {NoArray} \cup {[array |-> TRUE, items |-> s] : s \in SeqsUpTo(TableValues, 1)}

InitOperation ==
    /\ features = DefaultFeatures
    /\ config \in OperationConfigs
    /\ GLOBAL_ACCESSOR = [state |-> Incomplete, value |-> <<>>]
    /\ operators = <<>>
    /\ idx = 0
    /\ initRuns = 0
    /\ panicMsg = NoPanic
    /\ pc = [t \in Threads |-> "idle"]
    /\ arg = [t \in Threads |-> Absent]
    /\ result = [t \in Threads |-> None]
    /\ nextId = 0
    /\ built = NoCall
    /\ op = IdleOperation

NextOperation ==
    \/ \E t \in OperationThreads, name \in LookupNames : Get(t, name)
    \/ \E t \in OperationThreads : InitializerEnter(t)
    \/ \E t \in OperationThreads : InitializerLoop(t)
    \/ \E t \in OperationThreads : InitializerReturn(t)
    \/ \E t \in OperationThreads : GetReturn(t)
    \/ \E t \in OperationThreads, scheme \in DirectSchemes :
           TryNewOperator(t, scheme, EmptyTable)
    \/ \E t \in OperationThreads, failures \in 0..MaxFailures, transient \in BOOLEAN :
           \E operator \in Held(t) : StartOperation(t, operator, failures, transient)
    \/ Attempt

SpecOperation == InitOperation /\ [][NextOperation]_vars

-----------------------------------------------------------------------------
\* Properties.

\* The configured accessor records: the table elements of the array, in order.
Records == SelectSeq(config.items, LAMBDA e : e.table)

Registry == GLOBAL_ACCESSOR.value

ThreeLayers == <<TracingLayer, MetricsLayer, RetryLayer>>

\* C1: once the registry is constructed it is the implicit "memory" entry
\* followed by exactly one entry per configured record, in configuration order,
\* each a distinct operator built from its record; this includes the empty
\* and the missing array.
C1_RegistryIsMemoryThenRecords ==
    GLOBAL_ACCESSOR.state = Complete =>
        /\ Len(Registry) = 1 + Len(Records)
        /\ Registry[1].name = "memory"
        /\ Registry[1].operator.builder = "Memory"
        /\ Registry[1].operator.table = EmptyTable
        /\ \A i \in 1..Len(Records) : Registry[i + 1].operator.table = Records[i]
        /\ \A i, j \in 1..Len(Registry) :
               i # j => Registry[i].operator.id # Registry[j].operator.id

C1_Witness ==
    /\ GLOBAL_ACCESSOR.state = Complete
    /\ Len(Records) = 2
    /\ Records[1] # Records[2]
    /\ Len(config.items) = 2

\* C2: get(name) returns the operator of the first entry, in construction
\* order, whose name equals the argument, and None when there is none; so a
\* lookup of "memory" always returns the implicit operator.
C2_GetReturnsFirstMatch ==
    \A t \in Threads :
        pc[t] = "returned" =>
            LET matches == {i \in 1..Len(Registry) : Registry[i].name = arg[t]}
            IN /\ matches = {} => result[t] = None
               /\ matches # {} =>
                      /\ result[t].some
                      /\ \E i \in matches :
                             /\ \A j \in matches : i <= j
                             /\ result[t].operator = Registry[i].operator
               /\ arg[t] = "memory" =>
                      /\ result[t].some
                      /\ result[t].operator = Registry[1].operator
                      /\ result[t].operator.table = EmptyTable

C2_Witness ==
    \E t \in Threads :
        /\ pc[t] = "returned"
        /\ arg[t] = "memory"
        /\ Len(Registry) = 3
        /\ Registry[2].name = "memory"
        /\ Registry[3].name = "memory"
        /\ result[t].operator.id = Registry[1].operator.id
        /\ result[t].operator.id # Registry[2].operator.id

\* A record the dispatch rejects: no compiled arm for its scheme, or a builder
\* that refuses its fields.
RecordFails(accessor) ==
    /\ accessor.table
    /\ \/ ~ArmCompiled(SchemeOf(accessor))
       \/ ~BuildOk(SchemeOf(accessor), accessor)

SomeRecordFails == \E i \in 1..Len(config.items) : RecordFails(config.items[i])

\* C3: when some configured record fails to build, the registry never
\* completes: it holds no value, no lookup returns, and no thread holds an
\* operator obtained from it.
C3_FailedConstructionServesNoLookup ==
    SomeRecordFails =>
        /\ GLOBAL_ACCESSOR.state # Complete
        /\ GLOBAL_ACCESSOR.value = <<>>
        /\ \A t \in Threads : pc[t] # "returned" /\ ~result[t].some

C3_Witness ==
    /\ GLOBAL_ACCESSOR.state = Poisoned
    /\ Len(operators) = 2
    /\ \A t \in Threads : pc[t] = "panicked"

\* C4: under concurrent first access the initializer is entered at most once,
\* and a lookup returns only after it completed: what it returns is computed
\* from the whole registry, memory entry and all configured records.
C4_InitializedOnceBeforeLookup ==
    /\ initRuns <= 1
    /\ Cardinality({t \in Threads : pc[t] = "initializing"}) <= 1
    /\ \A t \in Threads :
           pc[t] = "returned" =>
               /\ initRuns = 1
               /\ GLOBAL_ACCESSOR.state = Complete
               /\ Registry = operators
               /\ Len(Registry) = 1 + Len(Records)
               /\ result[t] = find_map(Registry, arg[t])

C4_Witness ==
    \E t, u \in Threads :
        /\ pc[t] = "initializing"
        /\ pc[u] = "forcing"
        /\ Len(operators) = 2
        /\ idx <= Len(config.items)

\* The scheme selects no compiled arm: it is not a documented scheme, or its
\* feature flag is off.
NoCompiledBuilder(scheme) ==
    \/ scheme \notin DocumentedSchemes
    \/ ArmFeature(scheme) \in OptionalFeatures \ features

\* C5: for a scheme with no compiled-in builder, try_new_operator returns
\* Err(Unsupported, "scheme is unsupported") and has constructed no builder,
\* consulted no secret and applied no layer.
C5_UnsupportedSchemeIsErr ==
    (built.calls > 0 /\ NoCompiledBuilder(built.scheme)) =>
        /\ ~built.result.ok
        /\ built.result.error = [kind |-> Unsupported, message |-> "scheme is unsupported"]
        /\ built.result.constructed = "none"
        /\ ~built.result.secret
        /\ built.result.operator = NoOperator

C5_Witness ==
    /\ built.calls > 0
    /\ built.scheme = "redis"
    /\ "accessor-redis" \notin features
    /\ "accessor-ftp" \in features
    /\ built.result.error.kind = Unsupported

\* C6: every operator try_new_operator returns and every registry entry is
\* wrapped by tracing, then metrics, then retry; and every try the retry layer
\* makes of an operation passes the tracing and the metrics layer once.
C6_RetryWrapsMetricsWrapsTracing ==
    /\ built.result.ok => built.result.operator.layers = ThreeLayers
    /\ \A i \in 1..Len(operators) : operators[i].operator.layers = ThreeLayers
    /\ \A i \in 1..Len(Registry) : Registry[i].operator.layers = ThreeLayers
    /\ op.status # "idle" => op.traces = op.tries /\ op.metrics = op.tries

C6_Witness ==
    /\ op.status = "ok"
    /\ op.tries = 3
    /\ op.traces = 3
    /\ op.metrics = 3
    /\ op.operator \in {built.result.operator}

\* C7: against a backend that fails transiently exactly K times and then
\* succeeds, an operation succeeds when K < MaxAttempts (on try K + 1), and
\* fails after exactly MaxAttempts tries when K >= MaxAttempts.
C7_RetryBoundedByMaxAttempts ==
    op.transient =>
        /\ op.tries <= MaxAttempts
        /\ op.status = "running" => op.tries < MaxAttempts /\ op.tries <= op.failures
        /\ op.status \in {"ok", "failed"} =>
               IF op.failures < MaxAttempts
               THEN op.status = "ok" /\ op.tries = op.failures + 1
               ELSE op.status = "failed" /\ op.tries = MaxAttempts

C7_Witness ==
    /\ op.transient
    /\ op.status = "failed"
    /\ op.failures > MaxAttempts
    /\ op.tries = MaxAttempts
    /\ op.operator \in {built.result.operator}

\* C8: once the registry is constructed no step changes it, whatever get and
\* try_new_operator calls are made; and two lookups of the same name hold the
\* same operator instance.
C8_RegistryImmutable ==
    /\ [][GLOBAL_ACCESSOR.state = Complete => GLOBAL_ACCESSOR' = GLOBAL_ACCESSOR]_vars
    /\ [](\A t, u \in Threads :
              (pc[t] = "returned" /\ pc[u] = "returned" /\ arg[t] = arg[u]) =>
                  result[t] = result[u])
    /\ [](\A t \in Threads :
              (pc[t] = "returned" /\ result[t].some) =>
                  \E i \in 1..Len(Registry) : Registry[i].operator = result[t].operator)

C8_Witness ==
    /\ \A t \in Threads : pc[t] = "returned" /\ arg[t] = "memory" /\ result[t].some
    /\ built.result.ok
    /\ Len(Registry) = 2

\* C9: a configured record is stored under its name when it has one and under
\* its scheme otherwise, and its operator is the one the dispatch built for
\* the record's scheme from the record itself.
C9_EntryNameAndOperator ==
    GLOBAL_ACCESSOR.state = Complete =>
        \A i \in 1..Len(Records) :
            /\ i + 1 <= Len(Registry)
            /\ Records[i].scheme # Absent
            /\ Registry[i + 1].name =
                   IF Records[i].name # Absent THEN Records[i].name ELSE Records[i].scheme
            /\ Registry[i + 1].operator.scheme = Records[i].scheme
            /\ Registry[i + 1].operator.builder = Builder(Records[i].scheme)
            /\ Registry[i + 1].operator.table = Records[i]

C9_Witness ==
    /\ GLOBAL_ACCESSOR.state = Complete
    /\ Len(Records) = 2
    /\ Records[1].name = "local"
    /\ Records[1].scheme = "fs"
    /\ Records[2].name = Absent
    /\ Registry[3].name = "fs"

\* The message names the string.
Identifies(message, str) == \E i \in 1..Len(message) : message[i] = str

\* The record the initializer was building when it panicked.
Offending == config.items[idx]

\* C10 as stated: the startup failure identifies the offending accessor's
\* scheme and its name.
C10_FailureIdentifiesSchemeAndName ==
    GLOBAL_ACCESSOR.state = Poisoned =>
        /\ Identifies(panicMsg, SchemeOf(Offending))
        /\ Identifies(panicMsg, NameOf(Offending))

\* C10, amended: the startup failure identifies the offending accessor's
\* scheme and the build error; it identifies the name only when the name is
\* the scheme itself.
C10_FailureIdentifiesSchemeOnly ==
    GLOBAL_ACCESSOR.state = Poisoned =>
        /\ Offending.table
        /\ Identifies(panicMsg, SchemeOf(Offending))
        /\ Identifies(panicMsg, try_new_operator(SchemeOf(Offending), Offending, 0).error.message)
        /\ Identifies(panicMsg, NameOf(Offending)) <=> NameOf(Offending) = SchemeOf(Offending)

C10_Witness ==
    /\ GLOBAL_ACCESSOR.state = Poisoned
    /\ Offending.scheme = "bogus"
    /\ Offending.name = "local"
    /\ Identifies(panicMsg, "bogus")
    /\ ~Identifies(panicMsg, "local")

\* The table elements among the first n elements of the array.
TablesBefore(n) == {i \in 1..Len(config.items) : i < n /\ config.items[i].table}

\* C11: an element of the array that is not a table is skipped without
\* failure and adds no entry: the vector holds the memory entry and one entry
\* per table element passed so far, and the element the initializer panics on
\* is always a table. A table without a scheme is dispatched as "unkown",
\* which no builder matches, so construction fails on it with Unsupported and
\* the registry never completes with such a record in the array.
C11_NonTableSkippedMissingSchemeFails ==
    /\ GLOBAL_ACCESSOR.state \in {Running, Complete} =>
           Cardinality(TablesBefore(idx)) + 1 = Len(operators)
    /\ GLOBAL_ACCESSOR.state = Complete => idx = Len(config.items) + 1
    /\ GLOBAL_ACCESSOR.state = Poisoned => Offending.table
    /\ (GLOBAL_ACCESSOR.state = Poisoned /\ Offending.scheme = Absent) =>
           /\ panicMsg[2] = "unkown"
           /\ Identifies(panicMsg, Unsupported)
           /\ Identifies(panicMsg, "scheme is unsupported")
    /\ (\E i \in 1..Len(config.items) :
            config.items[i].table /\ config.items[i].scheme = Absent) =>
           GLOBAL_ACCESSOR.state # Complete
    /\ \A i \in 1..Len(config.items) :
           (/\ GLOBAL_ACCESSOR.state = Running
            /\ idx > i
            /\ config.items[i].table) => config.items[i].scheme # Absent

C11_Witness ==
    /\ GLOBAL_ACCESSOR.state = Poisoned
    /\ Len(config.items) = 2
    /\ config.items[1] = NonTable
    /\ idx = 2
    /\ Offending.table
    /\ Offending.scheme = Absent
    /\ Len(operators) = 1
    /\ panicMsg[2] = "unkown"

====
